---- MODULE Spec2Model ----
(***************************************************************************)
(* A model of markovchain-ts (src/src/markov.ts): the Chain class with its *)
(* static build / fromJSON, its methods toJSON / move / walk, and the      *)
(* helpers createStateKey and createBeginState.                            *)
(*                                                                         *)
(* JavaScript values are tagged records, one field name per type, so that  *)
(* values of different types are comparable:                               *)
(*   [str |-> s]  string         [num |-> n]  number       [nan |-> TRUE]  *)
(*   [arr |-> <<..>>] array      [undef |-> TRUE] undefined                *)
(*   [null |-> TRUE] null        [obj |-> <<[k |-> key, v |-> value]..>>]  *)
(*   object, properties in for-in order                                    *)
(*   [throw |-> msg] the outcome of a call that threw                      *)
(*   [chain |-> TRUE, stateSize |-> .., model |-> ..] a Chain instance     *)
(***************************************************************************)
EXTENDS Integers, Sequences, FiniteSets, TLC

(***************************************************************************)
(* Bounds of the model.                                                    *)
(***************************************************************************)
MaxRuns == 2
MaxRunLen == 2
MaxStateSize == 2
MaxSteps == 3
MaxIndex == 3

(***************************************************************************)
(* Program constants.                                                      *)
(***************************************************************************)
Str(s) == [str |-> s]
Num(n) == [num |-> n]
Arr(a) == [arr |-> a]
Obj(ps) == [obj |-> ps]
Undefined == [undef |-> TRUE]
Null == [null |-> TRUE]
NaN == [nan |-> TRUE]
Throw(msg) == [throw |-> msg]

BEGIN == Str("@@MARKOV_CHAIN_BEGIN")
END == Str("@@MARKOV_CHAIN_END")
DEFAULT_STATE_SIZE == Num(1)

(***************************************************************************)
(* JavaScript primitives used by the code.                                 *)
(***************************************************************************)
IsStr(v) == "str" \in DOMAIN v
IsNum(v) == "num" \in DOMAIN v
IsArray(v) == "arr" \in DOMAIN v
IsObj(v) == "obj" \in DOMAIN v
IsUndefined(v) == "undef" \in DOMAIN v
IsNull(v) == "null" \in DOMAIN v
IsThrow(v) == "throw" \in DOMAIN v
IsChain(v) == "chain" \in DOMAIN v

\* ToBoolean: undefined, null, NaN, 0 and "" are falsy, everything else truthy.
Truthy(v) ==
  IF IsNum(v) THEN v.num # 0
  ELSE IF IsStr(v) THEN v.str # ""
  ELSE IsArray(v) \/ IsObj(v) \/ IsChain(v)

\* a || b
Or(a, b) == IF Truthy(a) THEN a ELSE b

\* a + b on numbers; a number plus undefined is NaN.
Plus(a, b) == IF IsNum(a) /\ IsNum(b) THEN Num(a.num + b.num) ELSE NaN

Min(a, b) == IF a < b THEN a ELSE b

\* Array.prototype.slice(start, end) on a 0-based array, for start, end >= 0.
Slice(a, start, end) ==
  LET hi == Min(end, Len(a))
  IN IF start >= hi THEN <<>> ELSE SubSeq(a, start + 1, hi)

\* a[i] on a 0-based array: undefined outside the array.
At(a, i) == IF i >= 0 /\ i < Len(a) THEN a[i + 1] ELSE Undefined

(***************************************************************************)
(* JSON.stringify.  The text is a sequence of tokens; Text spells it as a  *)
(* string.  Strings of the model contain no character that JSON escapes.   *)
(***************************************************************************)
Punct(c) == [p |-> c]
Lit(s) == [lit |-> s]
NumTok(n) == [numtok |-> n]

RECURSIVE Tokens(_)
RECURSIVE ElemTokens(_, _)
RECURSIVE MemberTokens(_, _, _)

\* The elements of an array from index i on, comma separated; undefined
\* elements are written as null.
ElemTokens(a, i) ==
  IF i > Len(a) THEN <<>>
  ELSE (IF i > 1 THEN <<Punct(",")>> ELSE <<>>)
       \o (IF IsUndefined(a[i]) THEN <<Punct("null")>> ELSE Tokens(a[i]))
       \o ElemTokens(a, i + 1)

\* The properties of an object from index i on; properties whose value is
\* undefined are left out.
MemberTokens(ps, i, first) ==
  IF i > Len(ps) THEN <<>>
  ELSE IF IsUndefined(ps[i].v) THEN MemberTokens(ps, i + 1, first)
  ELSE (IF first THEN <<>> ELSE <<Punct(",")>>)
       \o <<Lit(ps[i].k), Punct(":")>> \o Tokens(ps[i].v)
       \o MemberTokens(ps, i + 1, FALSE)

Tokens(v) ==
  IF IsStr(v) THEN <<Lit(v.str)>>
  ELSE IF IsNum(v) THEN <<NumTok(v.num)>>
  ELSE IF IsArray(v) THEN <<Punct("[")>> \o ElemTokens(v.arr, 1) \o <<Punct("]")>>
  ELSE IF IsObj(v) THEN <<Punct("{")>> \o MemberTokens(v.obj, 1, TRUE) \o <<Punct("}")>>
  ELSE <<Punct("null")>>

Spell(t) ==
  IF "lit" \in DOMAIN t THEN "\"" \o t.lit \o "\""
  ELSE IF "numtok" \in DOMAIN t THEN ToString(t.numtok)
  ELSE t.p

RECURSIVE Text(_)
Text(toks) == IF toks = <<>> THEN "" ELSE Spell(Head(toks)) \o Text(Tail(toks))

\* JSON.stringify(v) as a string; JSON.stringify(undefined) is undefined,
\* which names the property "undefined" when used as a key.
JSONstringify(v) == IF IsUndefined(v) THEN "undefined" ELSE Text(Tokens(v))

(***************************************************************************)
(* JavaScript objects: property lookup, assignment and for-in order        *)
(* (array-index keys ascending first, then the others in insertion order). *)
(***************************************************************************)
IsIndex(k) == \E n \in 0..MaxIndex : ToString(n) = k
IndexOf(k) == CHOOSE n \in 0..MaxIndex : ToString(n) = k

\* const x = e, followed by the rest F(x) of the block: e is evaluated once.
Bind(e, F(_)) == CHOOSE y \in {F(x) : x \in {e}} : TRUE

Has(o, k) == \E key \in {k} : \E i \in 1..Len(o.obj) : o.obj[i].k = key

\* The property key among the properties ps.
Lookup(ps, key) ==
  IF \E i \in 1..Len(ps) : ps[i].k = key
    THEN ps[CHOOSE i \in 1..Len(ps) : ps[i].k = key].v
    ELSE Undefined

\* o[k]: the operands are evaluated once, then the property is looked up.
Get(o, k) == CHOOSE v \in {Lookup(ps, key) : ps \in {o.obj}, key \in {k}} : TRUE

\* The position a new key takes in the property order.
InsertAt(ps, k) ==
  IF IsIndex(k)
    THEN 1 + Cardinality({i \in 1..Len(ps) :
                            IsIndex(ps[i].k) /\ IndexOf(ps[i].k) < IndexOf(k)})
    ELSE Len(ps) + 1

\* o[k] = v
Set(o, k, v) ==
  IF Has(o, k)
    THEN Obj([i \in 1..Len(o.obj) |->
                IF o.obj[i].k = k THEN [k |-> k, v |-> v] ELSE o.obj[i]])
    ELSE LET pos == InsertAt(o.obj, k)
         IN Obj(SubSeq(o.obj, 1, pos - 1) \o <<[k |-> k, v |-> v]>>
                \o SubSeq(o.obj, pos, Len(o.obj)))

EmptyObj == Obj(<<>>)

(***************************************************************************)
(* createStateKey and createBeginState.                                    *)
(***************************************************************************)
createStateKey(originalState) ==
  LET stateArray == IF IsArray(originalState)
                      THEN originalState
                      ELSE Arr(<<originalState>>)
  IN JSONstringify(stateArray)

\* stateSize is a number; the loop runs for i = 0 .. stateSize - 1.
createBeginState(stateSize) ==
  Arr([i \in 1..stateSize.num |-> BEGIN])

(***************************************************************************)
(* Chain.build(corpus, options); options is an object that may or may not  *)
(* have a stateSize; the loops get opts, its stateSize property (a number  *)
(* or undefined).                                                          *)
(***************************************************************************)
DefaultOptions == Obj(<<[k |-> "stateSize", v |-> Num(1)]>>)

\* One iteration of the n-gram loop: the table after the window starting at
\* ngramStart has been counted.
\* A variant of CountNgram that stores 1 instead of adding 1; the counts of
\* C1 tell the two apart.
CountNgramOnce(model, paddedRun, ngramStart, opts) ==
  Bind(Or(Plus(Num(ngramStart), opts), DEFAULT_STATE_SIZE).num, LAMBDA ngramEnd :
  Bind(createStateKey(Arr(Slice(paddedRun, ngramStart, ngramEnd))), LAMBDA stateKey :
  Bind(At(paddedRun, ngramEnd), LAMBDA follow :
  Bind(IF ~Truthy(Get(model, stateKey))
         THEN Set(model, stateKey, EmptyObj)
         ELSE model, LAMBDA m1 :
    Set(m1, stateKey,
        Set(Get(m1, stateKey), JSONstringify(follow),
            Obj(<<[k |-> "value", v |-> follow], [k |-> "count", v |-> Num(1)]>>)))))))

\* One iteration of the n-gram loop: the table after it.  m1 is the table
\* once model[stateKey] exists, fs1 its follow set once the record exists.
CountNgram(model, paddedRun, ngramStart, opts) ==
  Bind(Or(Plus(Num(ngramStart), opts), DEFAULT_STATE_SIZE).num, LAMBDA ngramEnd :
  Bind(createStateKey(Arr(Slice(paddedRun, ngramStart, ngramEnd))), LAMBDA stateKey :
  Bind(At(paddedRun, ngramEnd), LAMBDA follow :
  Bind(IF ~Truthy(Get(model, stateKey))
         THEN Set(model, stateKey, EmptyObj)
         ELSE model, LAMBDA m1 :
  Bind(JSONstringify(follow), LAMBDA followKey :
  Bind(IF ~Truthy(Get(Get(m1, stateKey), followKey))
         THEN Set(Get(m1, stateKey), followKey,
                  Obj(<<[k |-> "value", v |-> follow],
                        [k |-> "count", v |-> Num(0)]>>))
         ELSE Get(m1, stateKey), LAMBDA fs1 :
  Bind(Get(fs1, followKey), LAMBDA rec :
    Set(m1, stateKey,
        Set(fs1, followKey,
            Set(rec, "count", Plus(Get(rec, "count"), Num(1))))))))))))

RECURSIVE NgramLoop(_, _, _, _, _)
NgramLoop(model, paddedRun, runLength, ngramStart, opts) ==
  IF ngramStart < runLength + 1
    THEN Bind(CountNgram(model, paddedRun, ngramStart, opts), LAMBDA counted :
           NgramLoop(counted, paddedRun, runLength, ngramStart + 1, opts))
    ELSE model

\* A variant of PaddedRun without the END marker; a walk on its table ends
\* on no transition, which C10 excludes.
PaddedRunNoEnd(beginPadding, run) == beginPadding \o run

PaddedRun(beginPadding, run) == beginPadding \o run \o <<END>>

RECURSIVE RunLoop(_, _, _, _, _)
RunLoop(model, corpus, i, beginPadding, opts) ==
  IF i > Len(corpus) THEN model
  ELSE Bind(corpus[i], LAMBDA run :
         IF ~IsArray(run)
           THEN Throw("Invalid run in corpus: Must be an array")
           ELSE Bind(NgramLoop(model, PaddedRun(beginPadding, run.arr),
                               Len(run.arr), 0, opts), LAMBDA counted :
                  RunLoop(counted, corpus, i + 1, beginPadding, opts)))

\* options is the second argument: undefined when the caller omits it; opts
\* is options.stateSize.
build(corpus, options) ==
  Bind(Get(IF IsUndefined(options) THEN DefaultOptions ELSE options,
           "stateSize"), LAMBDA opts :
    IF ~IsArray(corpus)
      THEN Throw("Corpus must be a List or an Array")
      ELSE Bind(createBeginState(Or(opts, DEFAULT_STATE_SIZE)).arr, LAMBDA beginPadding :
             RunLoop(EmptyObj, corpus.arr, 1, beginPadding, opts)))

(***************************************************************************)
(* new Chain(corpusOrModel, options); opts is options.stateSize.           *)
(***************************************************************************)
MkChain(stateSize, model) == [chain |-> TRUE, stateSize |-> stateSize, model |-> model]

\* corpusOrModel instanceof Object && !Array.isArray(corpusOrModel)
IsPlainObject(v) == IsObj(v)

NewChain(corpusOrModel, opts) ==
  Bind(Or(opts, DEFAULT_STATE_SIZE), LAMBDA stateSize :
    IF IsPlainObject(corpusOrModel)
      THEN MkChain(stateSize, corpusOrModel)
      ELSE Bind(build(corpusOrModel, Obj(<<[k |-> "stateSize", v |-> stateSize]>>)),
                LAMBDA model :
             IF IsThrow(model) THEN model ELSE MkChain(stateSize, model)))

(***************************************************************************)
(* Chain.toJSON and JSON.stringify(chain), which serializes toJSON().      *)
(***************************************************************************)
FollowEntries(followSet) ==
  [j \in 1..Len(followSet.obj) |->
     Arr(<<Str(followSet.obj[j].k), followSet.obj[j].v>>)]

\* A variant of toJSON that leaves stateSize out; the round trip of C2 then
\* hydrates a chain of the default state size.
toJSONModelOnly(chain) ==
  LET serialized ==
        [i \in 1..Len(chain.model.obj) |->
           Arr(<<Str(chain.model.obj[i].k),
                 Arr(FollowEntries(chain.model.obj[i].v))>>)]
  IN Obj(<<[k |-> "model", v |-> Arr(serialized)]>>)

toJSON(chain) ==
  LET serialized ==
        [i \in 1..Len(chain.model.obj) |->
           Arr(<<Str(chain.model.obj[i].k),
                 Arr(FollowEntries(chain.model.obj[i].v))>>)]
  IN Obj(<<[k |-> "stateSize", v |-> chain.stateSize],
           [k |-> "model", v |-> Arr(serialized)]>>)

Serialize(chain) == Tokens(toJSON(chain))

(***************************************************************************)
(* JSON.parse: a recursive-descent parser over the tokens of the text.     *)
(* A parse is [ok |-> TRUE, v |-> value, rest |-> remaining tokens] or     *)
(* [ok |-> FALSE].                                                         *)
(***************************************************************************)
ParseFail == [ok |-> FALSE]
Parsed(v, rest) == [ok |-> TRUE, v |-> v, rest |-> rest]
IsPunct(toks, c) == toks # <<>> /\ "p" \in DOMAIN Head(toks) /\ Head(toks).p = c

RECURSIVE ParseValue(_)
RECURSIVE ParseElems(_, _)
RECURSIVE ParseMembers(_, _)

\* After an element: "]" ends the array, "," announces another element.
ParseElems(toks, acc) ==
  IF IsPunct(toks, "]") THEN Parsed(Arr(acc), Tail(toks))
  ELSE IF IsPunct(toks, ",")
    THEN LET e == ParseValue(Tail(toks))
         IN IF e.ok THEN ParseElems(e.rest, Append(acc, e.v)) ELSE ParseFail
  ELSE ParseFail

\* One member "key": value, then "}" or "," and the next member.
ParseMembers(toks, acc) ==
  IF toks # <<>> /\ "lit" \in DOMAIN Head(toks) /\ IsPunct(Tail(toks), ":")
    THEN LET e == ParseValue(Tail(Tail(toks)))
         IN IF ~e.ok THEN ParseFail
            ELSE LET o == Set(acc, Head(toks).lit, e.v)
                 IN IF IsPunct(e.rest, "}") THEN Parsed(o, Tail(e.rest))
                    ELSE IF IsPunct(e.rest, ",") THEN ParseMembers(Tail(e.rest), o)
                    ELSE ParseFail
    ELSE ParseFail

ParseValue(toks) ==
  IF toks = <<>> THEN ParseFail
  ELSE LET t == Head(toks)
       IN IF "lit" \in DOMAIN t THEN Parsed(Str(t.lit), Tail(toks))
          ELSE IF "numtok" \in DOMAIN t THEN Parsed(Num(t.numtok), Tail(toks))
          ELSE IF t.p = "null" THEN Parsed(Null, Tail(toks))
          ELSE IF t.p = "[" THEN
            (IF IsPunct(Tail(toks), "]") THEN Parsed(Arr(<<>>), Tail(Tail(toks)))
             ELSE LET e == ParseValue(Tail(toks))
                  IN IF e.ok THEN ParseElems(e.rest, <<e.v>>) ELSE ParseFail)
          ELSE IF t.p = "{" THEN
            (IF IsPunct(Tail(toks), "}") THEN Parsed(EmptyObj, Tail(Tail(toks)))
             ELSE ParseMembers(Tail(toks), EmptyObj))
          ELSE ParseFail

JSONparse(toks) ==
  LET r == ParseValue(toks)
  IN IF r.ok /\ r.rest = <<>> THEN r.v ELSE Throw("SyntaxError")

(***************************************************************************)
(* The property reads, destructuring and Object.assign that fromJSON does  *)
(* on whatever JSON.parse returned.                                        *)
(***************************************************************************)
\* The characters of the strings that the inputs of the model contain.
Chars(s) ==
  CASE s = "" -> <<>>
    [] s = "a" -> <<"a">>
    [] s = "b" -> <<"b">>
    [] s = "k" -> <<"k">>
    [] s = "ab" -> <<"a", "b">>

TypeError == Throw("TypeError")

\* v.length
Length(v) ==
  IF IsNull(v) \/ IsUndefined(v) THEN TypeError
  ELSE IF IsArray(v) THEN Num(Len(v.arr))
  ELSE IF IsStr(v) THEN Num(Len(Chars(v.str)))
  ELSE IF IsObj(v) THEN Get(v, "length")
  ELSE Undefined

\* v.name for a name other than length
Prop(v, name) ==
  IF IsNull(v) \/ IsUndefined(v) THEN TypeError
  ELSE IF IsObj(v) THEN Get(v, name)
  ELSE Undefined

\* v[i] for a number i, v neither null nor undefined
Index(v, i) ==
  IF IsArray(v) THEN At(v.arr, i)
  ELSE IF IsStr(v) THEN (IF i < Len(Chars(v.str)) THEN Str(Chars(v.str)[i + 1]) ELSE Undefined)
  ELSE IF IsObj(v) THEN Get(v, ToString(i))
  ELSE Undefined

\* const [a, b] = v: the first two values v iterates over, or a TypeError
\* when v is not iterable.
Destructure2(v) ==
  IF IsArray(v) THEN [fst |-> At(v.arr, 0), snd |-> At(v.arr, 1)]
  ELSE IF IsStr(v) THEN [fst |-> Index(v, 0), snd |-> Index(v, 1)]
  ELSE TypeError

RECURSIVE JoinKeys(_, _)
RECURSIVE ToPropertyKey(_)
\* String(array): the elements joined by commas, null and undefined empty.
JoinKeys(a, i) ==
  IF i > Len(a) THEN ""
  ELSE (IF i > 1 THEN "," ELSE "")
       \o (IF IsNull(a[i]) \/ IsUndefined(a[i]) THEN "" ELSE ToPropertyKey(a[i]))
       \o JoinKeys(a, i + 1)

\* The property name a value used as a key is converted to.
ToPropertyKey(v) ==
  IF IsStr(v) THEN v.str
  ELSE IF IsNum(v) THEN ToString(v.num)
  ELSE IF IsUndefined(v) THEN "undefined"
  ELSE IF IsNull(v) THEN "null"
  ELSE IF IsArray(v) THEN JoinKeys(v.arr, 1)
  ELSE "[object Object]"

\* Object.assign({}, src): the own enumerable properties of src.
ObjectAssign(src) ==
  IF IsObj(src) THEN src
  ELSE IF IsArray(src)
    THEN Obj([i \in 1..Len(src.arr) |-> [k |-> ToString(i - 1), v |-> src.arr[i]]])
  ELSE IF IsStr(src)
    THEN Obj([i \in 1..Len(Chars(src.str)) |->
                [k |-> ToString(i - 1), v |-> Str(Chars(src.str)[i])]])
  ELSE EmptyObj

(***************************************************************************)
(* Chain.fromJSON.                                                         *)
(***************************************************************************)
\* The inner loop: followMap after the entries j.. of follow; n is
\* follow.length.
RECURSIVE FollowLoop(_, _, _, _)
FollowLoop(followMap, follow, j, n) ==
  IF ~(IsNum(n) /\ j < n.num) THEN followMap
  ELSE Bind(Destructure2(Index(follow, j)), LAMBDA d :
         IF IsThrow(d) THEN d
         ELSE Bind(Set(followMap, ToPropertyKey(d.fst), ObjectAssign(d.snd)),
                   LAMBDA assigned : FollowLoop(assigned, follow, j + 1, n)))

\* The outer loop: the list of [stateKey, followMap] pairs after the entries
\* i.. of parsedData.model, or what was thrown; n is parsedData.model.length.
RECURSIVE StatesLoop(_, _, _, _)
StatesLoop(states, pm, i, n) ==
  IF ~(IsNum(n) /\ i < n.num) THEN [states |-> states]
  ELSE Bind(Destructure2(Index(pm, i)), LAMBDA d :
         IF IsThrow(d) THEN d
         ELSE Bind(Length(d.snd), LAMBDA fl :
                IF IsThrow(fl) THEN fl
                ELSE Bind(FollowLoop(EmptyObj, d.snd, 0, fl), LAMBDA followMap :
                       IF IsThrow(followMap) THEN followMap
                       ELSE StatesLoop(Append(states, [fst |-> d.fst, snd |-> followMap]),
                                       pm, i + 1, n))))

\* states.reduce((acc, [key, value]) => { acc[key] = value; return acc }, {})
RECURSIVE Reduce(_, _, _)
Reduce(acc, states, i) ==
  IF i > Len(states) THEN acc
  ELSE Reduce(Set(acc, ToPropertyKey(states[i].fst), states[i].snd), states, i + 1)

fromJSON(jsonData) ==
  Bind(JSONparse(jsonData), LAMBDA parsedData :
    IF IsThrow(parsedData) THEN parsedData
    ELSE Bind(Prop(parsedData, "stateSize"), LAMBDA stateSize :
           IF IsThrow(stateSize) THEN stateSize
           ELSE Bind(Prop(parsedData, "model"), LAMBDA pm :
                Bind(Length(pm), LAMBDA n :
                  IF IsThrow(n) THEN n
                  ELSE Bind(StatesLoop(<<>>, pm, 0, n), LAMBDA r :
                         IF IsThrow(r) THEN r
                         ELSE NewChain(Reduce(EmptyObj, r.states, 1), stateSize))))))

(***************************************************************************)
(* Chain.move.  r is the integer part of Math.random() * cumSum; the       *)
(* cumulative sums are integers, so the comparison r >= sum gives the same *)
(* answer for the draw and for its integer part.                           *)
(***************************************************************************)
Choices(followSet) == [i \in 1..Len(followSet.obj) |-> Get(followSet.obj[i].v, "value")]
Weights(followSet) == [i \in 1..Len(followSet.obj) |-> Get(followSet.obj[i].v, "count").num]

RECURSIVE SumTo(_, _)
SumTo(weights, i) == IF i = 0 THEN 0 ELSE SumTo(weights, i - 1) + weights[i]

\* A variant of CumulativeDistribution that does not accumulate; C3 tells
\* the two apart on a follow set with a count above 1.
NoAccumulation(weights) == weights

CumulativeDistribution(weights) == [i \in 1..Len(weights) |-> SumTo(weights, i)]

\* The index (0-based) at which the search loop stops.
RECURSIVE RandomIndex(_, _, _)
RandomIndex(cumulativeDistribution, r, randomIndex) ==
  IF randomIndex < Len(cumulativeDistribution)
     /\ r >= cumulativeDistribution[randomIndex + 1]
    THEN RandomIndex(cumulativeDistribution, r, randomIndex + 1)
    ELSE randomIndex

\* The integer parts that Math.random() * cumSum can have in move(fromState).
Draws(chain, fromState) ==
  Bind(Get(chain.model, createStateKey(fromState)), LAMBDA state :
    IF ~Truthy(state) THEN {0}
    ELSE Bind(SumTo(Weights(state), Len(state.obj)), LAMBDA cumSum :
           IF cumSum > 0 THEN 0..(cumSum - 1) ELSE {0}))

move(chain, fromState, r) ==
  Bind(createStateKey(fromState), LAMBDA stateKey :
  Bind(Get(chain.model, stateKey), LAMBDA state :
    IF ~Truthy(state) THEN Undefined
    ELSE Bind(CumulativeDistribution(Weights(state)), LAMBDA cumulativeDistribution :
           At(Choices(state), RandomIndex(cumulativeDistribution, r, 0)))))

\* A variant of Stops that goes on after END; C4 tells the two apart.
StopsOnNoTransition(step) == IsUndefined(step)

Stops(step) == IsUndefined(step) \/ step = END

\* A variant of Slide that grows the window; C5 tells the two apart.
Grow(state, step) == Arr(Append(state.arr, step))

\* state.shift(); state.push(step)
Slide(state, step) == Arr(Append(Tail(state.arr), step))

(***************************************************************************)
(* The inputs of the model.                                                *)
(***************************************************************************)
Symbols == {Str("a"), Num(1)}

RECURSIVE SeqsUpTo(_, _)
\* The sequences over S of length at most n.
SeqsUpTo(S, n) ==
  IF n = 0 THEN {<<>>}
  ELSE LET shorter == SeqsUpTo(S, n - 1)
       IN shorter \cup {Append(q, e) : q \in {t \in shorter : Len(t) = n - 1}, e \in S}

SeqsOf(S, n) == {q \in SeqsUpTo(S, n) : Len(q) = n}

Runs == {Arr(q) : q \in SeqsUpTo(Symbols, MaxRunLen)}
Corpora == {Arr(c) : c \in SeqsUpTo(Runs, MaxRuns)}

\* The states of n symbols, as arrays.
States(n) == {Arr(q) : q \in SeqsOf(Symbols \cup {BEGIN}, n)}

(***************************************************************************)
(* The state: a Chain built from a corpus, and its host.                   *)
(***************************************************************************)
VARIABLES
  corpus,   \* the corpus the chain was built from
  chain,    \* the Chain instance
  arg,      \* during walk(s): the host's array s, else undefined
  pc,       \* "idle", or "walk" while walk is in its loop
  shared,   \* walk's state is the host's array (fromState was supplied)
  state,    \* walk's local state
  steps,    \* walk's local steps
  moves,    \* the moves the running walk has made: [from, ret]
  result    \* the last call: its arguments as the host sees them after the
            \* call, and what it returned

vars == <<corpus, chain, arg, pc, shared, state, steps, moves, result>>

Init ==
  /\ corpus \in Corpora
  /\ \E n \in 1..MaxStateSize : chain = NewChain(corpus, Num(n))
  /\ arg = Undefined
  /\ pc = "idle"
  /\ shared = FALSE
  /\ state = Undefined
  /\ steps = <<>>
  /\ moves = <<>>
  /\ result = [op |-> "new"]

\* The host calls chain.move(fromState) with a symbol or a state.
MoveCall(fromState, r) ==
  /\ pc = "idle"
  /\ r \in Draws(chain, fromState)
  /\ result' = [op |-> "move", from |-> fromState, r |-> r,
                ret |-> move(chain, fromState, r)]
  /\ UNCHANGED <<corpus, chain, arg, pc, shared, state, steps, moves>>

\* The entry of walk(fromState): steps = [], state = fromState || begin state.
WalkEnter(fromState) ==
  /\ pc' = "walk"
  /\ steps' = <<>>
  /\ moves' = <<>>
  /\ shared' = Truthy(fromState)
  /\ state' = Or(fromState, createBeginState(chain.stateSize))
  /\ result' = [op |-> "walking"]

\* The host calls chain.walk().
WalkCall ==
  /\ pc = "idle"
  /\ WalkEnter(Undefined)
  /\ UNCHANGED <<corpus, chain, arg>>

\* The host makes an array s of stateSize symbols and calls chain.walk(s).
WalkCallFrom(s) ==
  /\ pc = "idle"
  /\ arg' = s
  /\ WalkEnter(s)
  /\ UNCHANGED <<corpus, chain>>

\* The host calls chain.walk(s) again with the array s it has just passed.
WalkCallAgain ==
  /\ pc = "idle"
  /\ result.op = "walk"
  /\ result.hasArg
  /\ arg' = result.s
  /\ WalkEnter(result.s)
  /\ UNCHANGED <<corpus, chain>>

\* One iteration of the loop of walk with the draw r; the walk returns steps
\* when the move stops it.  Only the first MaxSteps steps are recorded: with
\* bounded = TRUE an iteration that would record more is not taken, with
\* bounded = FALSE it is taken and the records are cut off there.
Iterate(r, bounded) ==
  /\ pc = "walk"
  /\ r \in Draws(chain, state)
  /\ \E step \in {move(chain, state, r)} :
       LET log == Append(moves, [from |-> state, ret |-> step])
       IN IF Stops(step)
            THEN /\ pc' = "idle"
                 /\ result' = [op |-> "walk", hasArg |-> shared, s |-> arg,
                               moves |-> log, ret |-> steps]
                 /\ state' = Undefined
                 /\ steps' = <<>>
                 /\ moves' = <<>>
                 /\ shared' = FALSE
                 /\ arg' = Undefined
            ELSE /\ bounded => Len(steps) < MaxSteps
                 /\ steps' = IF Len(steps) < MaxSteps THEN Append(steps, step) ELSE steps
                 /\ moves' = IF Len(steps) < MaxSteps THEN log ELSE moves
                 /\ state' = Slide(state, step)
                 /\ arg' = IF shared THEN Slide(state, step) ELSE arg
                 /\ UNCHANGED <<pc, shared, result>>
  /\ UNCHANGED <<corpus, chain>>

WalkStep(r) == Iterate(r, TRUE)

\* The host serializes the chain and hydrates a chain from the text.
RoundTrip ==
  /\ pc = "idle"
  /\ result' = [op |-> "roundtrip", ret |-> fromJSON(Serialize(chain))]
  /\ UNCHANGED <<corpus, chain, arg, pc, shared, state, steps, moves>>

Idle == UNCHANGED <<corpus, chain, arg, pc, shared, state, steps, moves>>

\* The options a caller passes to build: none, {} or {stateSize: n}.
OptionsOf(n) == Obj(<<[k |-> "stateSize", v |-> Num(n)]>>)
BuildOptions == {Undefined, EmptyObj} \cup {OptionsOf(n) : n \in 1..MaxStateSize}

\* A corpus that is no array, and one whose run is no array.
BadCorpora == {Num(1), Arr(<<Num(1)>>)}

\* The host calls Chain.build(c, options).
BuildCall(c, options) ==
  /\ pc = "idle"
  /\ result' = [op |-> "build", corpus |-> c, options |-> options,
                ret |-> build(c, options)]
  /\ Idle

\* No follow set of a corpus has a larger total count.
MaxDraw == MaxRuns * (MaxRunLen + 1)

Next ==
  \/ \E fromState \in Symbols \cup States(chain.stateSize.num), r \in 0..MaxDraw :
       MoveCall(fromState, r)
  \/ WalkCall
  \/ \E s \in States(chain.stateSize.num) : WalkCallFrom(s)
  \/ WalkCallAgain
  \/ \E r \in 0..MaxDraw : WalkStep(r)
  \/ RoundTrip
  \/ \E options \in BuildOptions : BuildCall(corpus, options)

Spec == Init /\ [][Next]_vars

(***************************************************************************)
(* The static functions, called by a host that has a chain of the empty    *)
(* corpus: Chain.build, Chain.fromJSON and createStateKey.                 *)
(***************************************************************************)
StaticInit ==
  /\ corpus = Arr(<<>>)
  /\ chain = NewChain(corpus, Undefined)
  /\ arg = Undefined
  /\ pc = "idle"
  /\ shared = FALSE
  /\ state = Undefined
  /\ steps = <<>>
  /\ moves = <<>>
  /\ result = [op |-> "new"]

\* Parsed values that are not a serialized chain, and some that are.
Record(value, count) == Obj(<<[k |-> "value", v |-> value], [k |-> "count", v |-> Num(count)]>>)
StateSizeFields == {Undefined, Num(1), Num(2), Str("a"), Null}
ModelFields ==
  { Undefined, Null, Num(1), Str(""), Str("ab"), EmptyObj, Arr(<<>>),
    Arr(<<Num(1)>>), Arr(<<Str("ab")>>), Arr(<<Arr(<<>>)>>),
    Arr(<<Arr(<<Str("k")>>)>>),
    Arr(<<Arr(<<Str("k"), EmptyObj>>)>>),
    Arr(<<Arr(<<Str("k"), Arr(<<>>)>>)>>),
    Arr(<<Arr(<<Str("k"), Arr(<<Num(1)>>)>>)>>),
    Arr(<<Arr(<<Str("k"), Arr(<<Arr(<<Str("a"), Record(Str("a"), 1)>>)>>)>>)>>) }

\* {stateSize: ss, model: m}; a field that is undefined is absent from the text.
Root(ss, m) == Obj(<<[k |-> "stateSize", v |-> ss], [k |-> "model", v |-> m]>>)

Texts ==
  {Tokens(Root(ss, m)) : ss \in StateSizeFields, m \in ModelFields}
    \cup {Tokens(v) : v \in {Null, Num(5), Str("ab"), Arr(<<>>)}}
    \cup {<<>>, <<Punct("{")>>, <<Punct("["), NumTok(1)>>,
          <<Punct("{"), Lit("model"), Punct("}")>>}
    \cup {Serialize(NewChain(Arr(<<Arr(<<Str("a"), Num(1)>>)>>), Num(n))) :
            n \in 1..MaxStateSize}

FromJSONCall(text) ==
  /\ pc = "idle"
  /\ result' = [op |-> "fromJSON", text |-> text, ret |-> fromJSON(text)]
  /\ Idle

\* What a caller hands to createStateKey: one symbol, or a state (an array
\* of symbols).  The function sees only the value v.
KeySymbols == Symbols \cup {BEGIN, Arr(<<Num(1)>>), Arr(<<Str("a"), Num(1)>>)}
KeyInputs ==
  {[single |-> TRUE, v |-> x] : x \in KeySymbols}
    \cup {[single |-> FALSE, v |-> Arr(q)] :
            q \in SeqsUpTo(KeySymbols, MaxStateSize) \ {<<>>}}

KeyCall(x) ==
  /\ pc = "idle"
  /\ result' = [op |-> "createStateKey", x |-> x, key |-> createStateKey(x.v)]
  /\ Idle

StaticNext ==
  \/ \E c \in BadCorpora, options \in BuildOptions : BuildCall(c, options)
  \/ \E text \in Texts : FromJSONCall(text)
  \/ \E x \in KeyInputs : KeyCall(x)

StaticSpec == StaticInit /\ [][StaticNext]_vars

(***************************************************************************)
(* walk() under fair sampling: a host that only walks, and a random source *)
(* that eventually makes a move that is possible infinitely often.  The    *)
(* moves are grouped by the number of transitions that separate the state  *)
(* of the walk from END.                                                   *)
(***************************************************************************)
Range(q) == {q[i] : i \in 1..Len(q)}

\* The values move can return from the state s.
FollowValues(model, s) ==
  Bind(Get(model, createStateKey(s)), LAMBDA followSet :
    IF IsUndefined(followSet) THEN {} ELSE Range(Choices(followSet)))

\* END is reached from the state s in at most k moves.
RECURSIVE EndsWithin(_, _, _)
EndsWithin(model, s, k) ==
  /\ k > 0
  /\ \E follows \in {FollowValues(model, s)} :
       \/ END \in follows
       \/ \E v \in follows \ {END} :
            \E next \in {Slide(s, v)} : EndsWithin(model, next, k - 1)

\* No state of a table built from runs of at most MaxRunLen symbols is
\* farther from END.
MaxDistance == MaxRunLen + 1

\* The number of moves that separate s from END, 0 when END is out of reach.
Distance(s) ==
  IF ~EndsWithin(chain.model, s, MaxDistance) THEN 0
  ELSE CHOOSE k \in 1..MaxDistance :
         /\ EndsWithin(chain.model, s, k)
         /\ \A j \in 1..(k - 1) : ~EndsWithin(chain.model, s, j)

\* The move with draw r takes the walk, d moves from END, one move closer.
Approaches(r, d) ==
  /\ pc = "walk"
  /\ r \in Draws(chain, state)
  /\ \E step \in {move(chain, state, r)} :
       IF d = 1 THEN step = END
       ELSE /\ ~Stops(step)
            /\ \E next \in {Slide(state, step)} : Distance(next) = d - 1

Closer(d) ==
  /\ pc = "walk"
  /\ Distance(state) = d
  /\ \E r \in 0..MaxDraw : Approaches(r, d) /\ Iterate(r, FALSE)

\* Every other iteration, the one that ends on no transition included.
Astray ==
  /\ pc = "walk"
  /\ \E here \in {Distance(state)} :
       \E r \in 0..MaxDraw :
         /\ ~(here > 0 /\ Approaches(r, here))
         /\ Iterate(r, FALSE)

FairNext ==
  \/ WalkCall
  \/ \E d \in 1..MaxDistance : Closer(d)
  \/ Astray

FairSpec ==
  /\ Init
  /\ [][FairNext]_vars
  /\ WF_vars(Astray)
  /\ \A d \in 1..MaxDistance : SF_vars(Closer(d))

(***************************************************************************)
(* Notions the properties are stated with.                                 *)
(***************************************************************************)
Follows == Symbols \cup {BEGIN, END}

\* BEGIN x n ++ q ++ [END]
Padded(q, n) == [i \in 1..n |-> BEGIN] \o q \o <<END>>

\* The pairs (run, i) at which the state S is followed by f in corpus c.
Observed(c, n, S, f) ==
  UNION {{<<r, i>> : i \in {j \in 0..Len(c.arr[r].arr) :
                             LET padded == Padded(c.arr[r].arr, n)
                             IN /\ SubSeq(padded, j + 1, j + n) = S.arr
                                /\ padded[j + n + 1] = f}} :
         r \in 1..Len(c.arr)}

\* The count the table stores for f under the key of S, 0 when there is none.
Stored(model, S, f) ==
  LET followSet == Get(model, createStateKey(S))
  IN IF IsUndefined(followSet) THEN 0
     ELSE LET rec == Get(followSet, JSONstringify(f))
          IN IF IsUndefined(rec) \/ Get(rec, "value") # f THEN 0
             ELSE Get(rec, "count").num

\* A table as a mapping state key -> follow key -> property -> value,
\* whatever the order of the properties.
PropertyMap(o) == {<<e.k, e.v>> : e \in Range(o.obj)}
ModelMap(model) ==
  {<<e.k, {<<r.k, PropertyMap(r.v)>> : r \in Range(e.v.obj)}>> : e \in Range(model.obj)}

\* The corpus and the table of the test "building models from text corpora".
TestCorpus ==
  Arr(<<Arr(<<Str("foo"), Str("bar"), Str("baz"), Str("qux.")>>),
        Arr(<<Str("foo"), Str("baz"), Str("qux"), Str("bar.")>>)>>)
Expect(follow, count) ==
  <<JSONstringify(follow), {<<"value", follow>>, <<"count", Num(count)>>}>>
ExpectedModel ==
  { <<createStateKey(Arr(<<BEGIN, BEGIN>>)), {Expect(Str("foo"), 2)}>>,
    <<createStateKey(Arr(<<BEGIN, Str("foo")>>)), {Expect(Str("bar"), 1), Expect(Str("baz"), 1)}>>,
    <<createStateKey(Arr(<<Str("foo"), Str("bar")>>)), {Expect(Str("baz"), 1)}>>,
    <<createStateKey(Arr(<<Str("bar"), Str("baz")>>)), {Expect(Str("qux."), 1)}>>,
    <<createStateKey(Arr(<<Str("baz"), Str("qux.")>>)), {Expect(END, 1)}>>,
    <<createStateKey(Arr(<<Str("foo"), Str("baz")>>)), {Expect(Str("qux"), 1)}>>,
    <<createStateKey(Arr(<<Str("baz"), Str("qux")>>)), {Expect(Str("bar."), 1)}>>,
    <<createStateKey(Arr(<<Str("qux"), Str("bar.")>>)), {Expect(END, 1)}>> }
TestModelIsExpected == ModelMap(build(TestCorpus, OptionsOf(2))) = ExpectedModel

(***************************************************************************)
(* C1.  The table of a chain built from a corpus stores, for every state S *)
(* of stateSize symbols and every symbol f, the number of places of the    *)
(* padded runs where S is followed by f; a state key and a follow record   *)
(* exist only where that number is at least 1, and the counts under a key  *)
(* sum to the number of times its state was observed.  The corpus of the   *)
(* test gives the eight keys of the test.                                  *)
(***************************************************************************)
C1_BuildCountsTransitions ==
  LET n == chain.stateSize.num
  IN /\ \A S \in States(n), f \in Follows :
          Stored(chain.model, S, f) = Cardinality(Observed(corpus, n, S, f))
     /\ \A e \in Range(chain.model.obj) :
          /\ \E S \in States(n) :
               LET seen == UNION {Observed(corpus, n, S, f) : f \in Follows}
               IN /\ e.k = createStateKey(S)
                  /\ Cardinality(seen) >= 1
                  /\ SumTo(Weights(e.v), Len(e.v.obj)) = Cardinality(seen)
          /\ \A r \in Range(e.v.obj) :
               \E f \in Follows : /\ r.k = JSONstringify(f)
                                  /\ Get(r.v, "value") = f
                                  /\ Get(r.v, "count").num >= 1
     /\ TestModelIsExpected

\* Two runs share a transition, so that a count of 2 is stored.
C1_Witness ==
  /\ result.op = "new"
  /\ Len(corpus.arr) = 2
  /\ Len(chain.model.obj) >= 3
  /\ \E S \in States(chain.stateSize.num), f \in Symbols :
       Stored(chain.model, S, f) = 2

(***************************************************************************)
(* C2.  The chain hydrated from the serialized chain has the stateSize of  *)
(* the original and a model equal to the original's as a mapping state key *)
(* -> follow key -> {value, count}; also for the empty corpus.             *)
(***************************************************************************)
C2_RoundTrip ==
  result.op = "roundtrip" =>
    /\ IsChain(result.ret)
    /\ result.ret.stateSize = chain.stateSize
    /\ ModelMap(result.ret.model) = ModelMap(chain.model)

\* A chain of stateSize 2 with a follow set of two entries went round.
C2_Witness ==
  /\ result.op = "roundtrip"
  /\ chain.stateSize = Num(2)
  /\ \E e \in Range(chain.model.obj) : Len(e.v.obj) = 2

(***************************************************************************)
(* C3.  move from a state whose follow set exists, with entries (v_1,c_1), *)
(* .., (v_k,c_k) in iteration order and total = c_1 + .. + c_k: every c_j  *)
(* is at least 1, the draw r is below total, and move returns the v_i of   *)
(* the unique i with c_1+..+c_(i-1) <= r < c_1+..+c_i; it never returns    *)
(* the no-transition result, and exactly c_i of the draws 0..total-1       *)
(* select v_i.                                                             *)
(***************************************************************************)
C3_MoveSelectsByCumulativeCount ==
  (result.op = "move" /\ Truthy(Get(chain.model, createStateKey(result.from)))) =>
    LET entries == Get(chain.model, createStateKey(result.from)).obj
        k == Len(entries)
        c == [j \in 1..k |-> Get(entries[j].v, "count").num]
        v == [j \in 1..k |-> Get(entries[j].v, "value")]
        total == SumTo(c, k)
        Selected(r) == {i \in 1..k : SumTo(c, i - 1) <= r /\ r < SumTo(c, i)}
    IN /\ k >= 1
       /\ \A j \in 1..k : c[j] >= 1
       /\ result.r \in 0..(total - 1)
       /\ Cardinality(Selected(result.r)) = 1
       /\ \A i \in Selected(result.r) : result.ret = v[i]
       /\ ~IsUndefined(result.ret)
       /\ \A i \in 1..k :
            Cardinality({r \in 0..(total - 1) : move(chain, result.from, r) = v[i]}) = c[i]

\* The second entry of a follow set with counts other than 1 was selected.
C3_Witness ==
  /\ result.op = "move"
  /\ Truthy(Get(chain.model, createStateKey(result.from)))
  /\ LET entries == Get(chain.model, createStateKey(result.from)).obj
     IN /\ Len(entries) >= 2
        /\ Get(entries[1].v, "count").num = 2
        /\ result.r = 2
        /\ result.ret = Get(entries[2].v, "value")

(***************************************************************************)
(* C4.  walk() without argument makes its first move from stateSize copies *)
(* of BEGIN, stops at the first move that returns END or no transition,    *)
(* makes no move after it, and returns the symbols the moves before it     *)
(* returned, in order: neither BEGIN nor END is among them.                *)
(***************************************************************************)
Returns(log) == [i \in 1..Len(log) |-> log[i].ret]

C4_WalkFromBeginToEnd ==
  LET begin == Arr([i \in 1..chain.stateSize.num |-> BEGIN])
  IN /\ (pc = "walk" /\ ~shared) =>
          /\ \A i \in 1..Len(moves) : ~IsUndefined(moves[i].ret) /\ moves[i].ret # END
          /\ steps = Returns(moves)
          /\ moves = <<>> => state = begin
          /\ moves # <<>> => moves[1].from = begin
     /\ (result.op = "walk" /\ ~result.hasArg) =>
          LET log == result.moves
              last == log[Len(log)].ret
          IN /\ Len(log) >= 1
             /\ log[1].from = begin
             /\ IsUndefined(last) \/ last = END
             /\ \A i \in 1..(Len(log) - 1) : ~IsUndefined(log[i].ret) /\ log[i].ret # END
             /\ result.ret = SubSeq(Returns(log), 1, Len(log) - 1)
             /\ \A i \in 1..Len(result.ret) : result.ret[i] \notin {BEGIN, END}

\* A walk of two steps has returned.
C4_Witness ==
  /\ result.op = "walk"
  /\ ~result.hasArg
  /\ Len(result.ret) = 2
  /\ result.moves[3].ret = END

(***************************************************************************)
(* C5.  A result w of walk() on a chain of a non-empty corpus: every       *)
(* window of stateSize + 1 elements of BEGIN x stateSize ++ w ++ [END] is  *)
(* a window of a padded run; the walk ended by drawing END; and when every *)
(* run is non-empty, w is non-empty, begins with the first element of a    *)
(* run and ends with the last element of a run.                            *)
(***************************************************************************)
WindowsOf(padded, n) == {SubSeq(padded, i, i + n) : i \in 1..(Len(padded) - n)}

C5_WalkFollowsCorpus ==
  (result.op = "walk" /\ ~result.hasArg /\ corpus.arr # <<>>) =>
    LET n == chain.stateSize.num
        w == result.ret
        runs == {run.arr : run \in Range(corpus.arr)}
    IN /\ WindowsOf(Padded(w, n), n) \subseteq UNION {WindowsOf(Padded(q, n), n) : q \in runs}
       /\ result.moves[Len(result.moves)].ret = END
       /\ (\A q \in runs : q # <<>>) =>
            /\ w # <<>>
            /\ \E q \in runs : w[1] = q[1]
            /\ \E q \in runs : w[Len(w)] = q[Len(q)]

\* A walk returned a sequence that is no run of the corpus.
C5_Witness ==
  /\ result.op = "walk"
  /\ ~result.hasArg
  /\ Len(result.ret) >= 2
  /\ \A run \in Range(corpus.arr) : run.arr # result.ret /\ run.arr # <<>>

(***************************************************************************)
(* C6.  walk has no side effect: after walk(fromState) has returned, the   *)
(* chain is as it was and the caller's fromState array holds what it held  *)
(* at the call.                                                            *)
(***************************************************************************)
C6_WalkIsPure ==
  (result.op = "walk" /\ result.hasArg) =>
    /\ chain = NewChain(corpus, chain.stateSize)
    /\ result.s = result.moves[1].from

(***************************************************************************)
(* C7.  Chain.fromJSON throws, and returns no chain, on a text that does   *)
(* not parse or whose value has not the shape {stateSize: integer, model:  *)
(* sequence of [stateKey, followEntries] pairs}.                           *)
(***************************************************************************)
IsPair(e) == IsArray(e) /\ Len(e.arr) = 2 /\ IsStr(e.arr[1]) /\ IsArray(e.arr[2])

WellShaped(text) ==
  LET parsed == JSONparse(text)
  IN /\ IsObj(parsed)
     /\ IsNum(Get(parsed, "stateSize"))
     /\ IsArray(Get(parsed, "model"))
     /\ \A e \in Range(Get(parsed, "model").arr) : IsPair(e)

C7_FromJSONRejectsMalformed ==
  (result.op = "fromJSON" /\ ~WellShaped(result.text)) => IsThrow(result.ret)

(***************************************************************************)
(* C8.  createStateKey keys a single symbol x as the state [x], and two    *)
(* inputs get the same key exactly when their normalized symbol sequences  *)
(* are equal.                                                              *)
(***************************************************************************)
Normalized(x) == IF x.single THEN <<x.v>> ELSE x.v.arr

C8_KeysAreCollisionFree ==
  result.op = "createStateKey" =>
    /\ result.x.single => result.key = createStateKey(Arr(<<result.x.v>>))
    /\ \A y \in KeyInputs :
         (result.key = createStateKey(y.v)) <=> (Normalized(result.x) = Normalized(y))

(***************************************************************************)
(* C9.  Chain.build with the options omitted, or with options that have no *)
(* stateSize, returns the table of build(corpus, {stateSize: 1}).          *)
(***************************************************************************)
C9_BuildDefaultsStateSize ==
  (result.op = "build"
     /\ (IsUndefined(result.options) \/ ~Has(result.options, "stateSize"))) =>
    result.ret = build(result.corpus, OptionsOf(1))

(***************************************************************************)
(* C10.  walk() cannot be trapped: every state the walk is in is a key of  *)
(* the table from which some sequence of transitions leads to END, and so, *)
(* under fair sampling, the walk terminates, whatever cycles the table     *)
(* has.  The chain of the empty corpus has no key at all: there walk()     *)
(* ends at once on no transition.                                          *)
(***************************************************************************)
TrapFree ==
  (pc = "walk" /\ ~shared) =>
    /\ Has(chain.model, createStateKey(state))
    /\ Distance(state) >= 1

Terminates == (pc = "walk") ~> (pc = "idle")

\* The claim as stated, for any corpus.
C10_NoTrapForAnyCorpus == TrapFree

\* As amended: no trap in the chain of a non-empty corpus, termination for
\* every corpus.
C10_WalkTerminates == [](corpus.arr # <<>> => TrapFree) /\ Terminates

\* The walk is back in a state it has already moved from: the table has a
\* cycle and the walk is in it.
C10_Witness ==
  /\ pc = "walk"
  /\ \E i \in 1..Len(moves) : moves[i].from = state
====
